---- MODULE Spec2Model ----
(***************************************************************************)
(* Monster Slayer: the battle state machine of the Game component          *)
(* (src/Start_code/src/components/Game.jsx).                               *)
(*                                                                         *)
(* The component's useState cells are the variables.  An event handler     *)
(* runs against the values of the render it was created in (its closure,   *)
(* the record c below) and queues state updates (accumulated in the record *)
(* n); React applies the queue when the handler returns.  A setter called  *)
(* with a value overwrites the cell, a setter called with a function is    *)
(* applied to the queued value.  The useEffect callbacks run after the     *)
(* render that follows, before the next click is handled.                  *)
(*                                                                         *)
(* Math.random() is modelled at a resolution of 1/100: a draw r stands for *)
(* the number r/100.                                                       *)
(***************************************************************************)
EXTENDS Integers, Sequences, FiniteSets, TLC

\* ------------------------------------------------------------------------
\* Bounds of the model
\* ------------------------------------------------------------------------
\* Player turns explored per game (the code has no such limit).
MaxRound == 5
\* Non-critical hits explored per game, the player's and the monster's.
MaxNonCritical == 2

\* Draws of Math.random() (in hundredths) handed to isCriticalHit.
CritDraws == {10, 90}
\* Draws handed to getRandomValue for damage.
DamageDraws == {99}
\* Draws handed to getRandomValue for healing.
HealDraws == {50, 99}

\* Rounds explored per game with the wider draws below.
DiceRounds == 2
\* Draws handed to getRandomValue where the rolls themselves are examined:
\* the lowest and the highest roll of each range.
WideDraws == {0, 99}
\* Every value of Math.random() at the resolution of the model.
AllDraws == 0..99

\* ------------------------------------------------------------------------
\* Constants for game mechanics
\* ------------------------------------------------------------------------
ATTACK_MIN_DAMAGE == 5
ATTACK_MAX_DAMAGE == 12
SPECIAL_ATTACK_MIN_DAMAGE == 10
SPECIAL_ATTACK_MAX_DAMAGE == 20
MONSTER_ATTACK_MIN_DAMAGE == 8
MONSTER_ATTACK_MAX_DAMAGE == 15
HEAL_MIN_VALUE == 8
HEAL_MAX_VALUE == 20
SPECIAL_ATTACK_COOLDOWN == 3
\* useState(100), "playerHealth === 100", Math.min(..., 100)
MAX_HEALTH == 100
\* useState(null) for winner
null == "null"

VARIABLES
    playerHealth, monsterHealth, currentRound, battleLog, gameOver, winner,
    specialAttackAvailable, specialAttackCooldown, lastActionWasCritical,
    gameStats,
    rendered,   \* dependency values of the last render whose effects have run
    pc,         \* "idle": waiting for a click; "effects": effects to be run
    last        \* the latest handler call: its name, draws and closure

vars == <<playerHealth, monsterHealth, currentRound, battleLog, gameOver,
          winner, specialAttackAvailable, specialAttackCooldown,
          lastActionWasCritical, gameStats, rendered, pc, last>>

\* ------------------------------------------------------------------------
\* Helper functions
\* ------------------------------------------------------------------------
Max(a, b) == IF a >= b THEN a ELSE b
Min(a, b) == IF a <= b THEN a ELSE b

\* A variant of getRandomValue: max taken as inclusive.
getRandomValue_inclusive(r, min, max) == ((r * (max - min + 1)) \div 100) + min

\* Math.floor(Math.random() * (max - min)) + min, for the draw r/100
getRandomValue(r, min, max) == ((r * (max - min)) \div 100) + min

\* Math.random() < 0.2
isCriticalHit(r) == r < 20

\* Math.floor(damage * CRITICAL_HIT_MULTIPLIER), the multiplier being 1.5
criticalDamage(damage) == (damage * 3) \div 2

createLogAttack(isPlayer, damage, isCritical) ==
    [isPlayer |-> isPlayer, isDamage |-> TRUE, isCritical |-> isCritical,
     text |-> <<" takes ", damage, " damage",
                IF isCritical THEN " (CRITICAL HIT!)" ELSE "">>]

createLogHeal(healing, isMaxed) ==
    [isPlayer |-> TRUE, isDamage |-> FALSE,
     text |-> <<" heals ", healing, " life points",
                IF isMaxed THEN " (MAX HEALTH!)" ELSE "">>]

surrenderLog ==
    [isPlayer |-> TRUE, isDamage |-> FALSE,
     text |-> <<" surrendered to the monster!">>]

initialStats ==
    [playerDamageDealt |-> 0, monsterDamageDealt |-> 0, healingDone |-> 0,
     criticalHits |-> 0, roundsPlayed |-> 0]

\* The state cells as one record: the closure of the current render.
Snap ==
    [playerHealth |-> playerHealth, monsterHealth |-> monsterHealth,
     currentRound |-> currentRound, battleLog |-> battleLog,
     gameOver |-> gameOver, winner |-> winner,
     specialAttackAvailable |-> specialAttackAvailable,
     specialAttackCooldown |-> specialAttackCooldown,
     lastActionWasCritical |-> lastActionWasCritical,
     gameStats |-> gameStats]

\* A variant of addLogMessage: the entry is put at the end of the log.
addLogMessage_atEnd(n, logEntry) == [n EXCEPT !.battleLog = @ \o <<logEntry>>]

\* setBattleLog((prevLog) => [logEntry, ...prevLog])
addLogMessage(n, logEntry) == [n EXCEPT !.battleLog = <<logEntry>> \o @]

\* ------------------------------------------------------------------------
\* Pieces of the handlers
\* ------------------------------------------------------------------------
\* The damage of one hit: the base roll, times 1.5 rounded down when critical.
hitDamage(rc, rb, min, max) ==
    IF isCriticalHit(rc) THEN criticalDamage(getRandomValue(rb, min, max))
    ELSE getRandomValue(rb, min, max)

\* A variant of healthAfterDamage: the subtraction without the Math.max.
healthAfterDamage_noClamp(health, damage) == health - damage

\* Math.max(health - damage, 0)
healthAfterDamage(health, damage) == Max(health - damage, 0)

\* Math.min(playerHealth + healing, 100)
healthAfterHeal(health, healing) == Min(health + healing, MAX_HEALTH)

\* "Don't allow actions if game is over"
actionBlocked(c) == c.gameOver \/ c.playerHealth <= 0 \/ c.monsterHealth <= 0

specialAttackBlocked(c) == actionBlocked(c) \/ ~c.specialAttackAvailable

\* A variant of healBlocked: no test for full health.
healBlocked_noFullHealthTest(c) == actionBlocked(c)

healBlocked(c) == actionBlocked(c) \/ c.playerHealth = MAX_HEALTH

surrenderBlocked(c) == c.gameOver

\* A variant of monsterAttackBlocked: the monster holds back from a player
\* who is not at full health.
monsterAttackBlocked_spares(c) ==
    c.gameOver \/ c.playerHealth <= 0 \/ c.monsterHealth <= 0
        \/ c.playerHealth < MAX_HEALTH

monsterAttackBlocked(c) ==
    c.gameOver \/ c.playerHealth <= 0 \/ c.monsterHealth <= 0

\* A variant of reduceCooldown: the cooldown is left as it is.
reduceCooldown_never(c, n) == n

\* "Reduce special attack cooldown if active"
reduceCooldown(c, n) ==
    IF c.specialAttackCooldown > 0
    THEN [n EXCEPT !.specialAttackCooldown = @ - 1]
    ELSE n

\* A variant of monsterTurnAfterHit: the comparison taken one too wide.
monsterTurnAfterHit_nonNegative(newMonsterHealth) == newMonsterHealth >= 0

\* A variant of monsterTurnAfterHit: the monster's turn whatever its health.
monsterTurnAfterHit_always(newMonsterHealth) == TRUE

\* "If monster is not defeated, it's monster's turn"
monsterTurnAfterHit(newMonsterHealth) == newMonsterHealth > 0

\* A variant of monsterAttack: a critical monster hit counts as a critical hit.
monsterAttack_countsCritical(c, n, mrc, mrb) ==
    IF monsterAttackBlocked(c) THEN n
    ELSE LET critical == isCriticalHit(mrc)
             damage == hitDamage(mrc, mrb, MONSTER_ATTACK_MIN_DAMAGE,
                                 MONSTER_ATTACK_MAX_DAMAGE)
             newHealth == healthAfterDamage(c.playerHealth, damage)
             n1 == [n EXCEPT !.playerHealth = newHealth,
                             !.gameStats.monsterDamageDealt = @ + damage,
                             !.gameStats.criticalHits =
                                 IF critical THEN @ + 1 ELSE @]
         IN addLogMessage(n1, createLogAttack(FALSE, damage, critical))

\* A variant of monsterAttack: the damage is taken off the playerHealth queued
\* so far in the call, not off the one of the render.
monsterAttack_readsQueued(c, n, mrc, mrb) ==
    IF monsterAttackBlocked(c) THEN n
    ELSE LET critical == isCriticalHit(mrc)
             damage == hitDamage(mrc, mrb, MONSTER_ATTACK_MIN_DAMAGE,
                                 MONSTER_ATTACK_MAX_DAMAGE)
             newHealth == healthAfterDamage(n.playerHealth, damage)
             n1 == [n EXCEPT !.playerHealth = newHealth,
                             !.gameStats.monsterDamageDealt = @ + damage]
         IN addLogMessage(n1, createLogAttack(FALSE, damage, critical))

\* A variant of monsterAttack: the monster's attack counts as a round played.
monsterAttack_countsRound(c, n, mrc, mrb) ==
    IF monsterAttackBlocked(c) THEN n
    ELSE LET critical == isCriticalHit(mrc)
             damage == hitDamage(mrc, mrb, MONSTER_ATTACK_MIN_DAMAGE,
                                 MONSTER_ATTACK_MAX_DAMAGE)
             newHealth == healthAfterDamage(c.playerHealth, damage)
             n1 == [n EXCEPT !.playerHealth = newHealth,
                             !.gameStats.monsterDamageDealt = @ + damage,
                             !.gameStats.roundsPlayed = @ + 1]
         IN addLogMessage(n1, createLogAttack(FALSE, damage, critical))

\* ------------------------------------------------------------------------
\* monsterAttack: called by the handlers, so it reads the handler's closure c
\* ------------------------------------------------------------------------
monsterAttack(c, n, mrc, mrb) ==
    IF monsterAttackBlocked(c) THEN n
    ELSE LET critical == isCriticalHit(mrc)
             damage == hitDamage(mrc, mrb, MONSTER_ATTACK_MIN_DAMAGE,
                                 MONSTER_ATTACK_MAX_DAMAGE)
             newHealth == healthAfterDamage(c.playerHealth, damage)
             n1 == [n EXCEPT !.playerHealth = newHealth,
                             !.gameStats.monsterDamageDealt = @ + damage]
         IN addLogMessage(n1, createLogAttack(FALSE, damage, critical))

\* ------------------------------------------------------------------------
\* Button handlers: the state queued by a call made in closure c
\* ------------------------------------------------------------------------
attackMonster(c, rc, rb, mrc, mrb) ==
    IF actionBlocked(c) THEN c
    ELSE LET critical == isCriticalHit(rc)
             damage == hitDamage(rc, rb, ATTACK_MIN_DAMAGE, ATTACK_MAX_DAMAGE)
             newMonsterHealth == healthAfterDamage(c.monsterHealth, damage)
             n1 == [c EXCEPT !.currentRound = @ + 1,
                             !.lastActionWasCritical = critical,
                             !.gameStats.criticalHits =
                                 IF critical THEN @ + 1 ELSE @,
                             !.monsterHealth = newMonsterHealth,
                             !.gameStats.playerDamageDealt = @ + damage,
                             !.gameStats.roundsPlayed = @ + 1]
             n2 == addLogMessage(n1, createLogAttack(TRUE, damage, critical))
             n3 == reduceCooldown(c, n2)
         IN IF monsterTurnAfterHit(newMonsterHealth)
            THEN monsterAttack(c, n3, mrc, mrb)
            ELSE n3

specialAttackMonster(c, rc, rb, mrc, mrb) ==
    IF specialAttackBlocked(c) THEN c
    ELSE LET critical == isCriticalHit(rc)
             damage == hitDamage(rc, rb, SPECIAL_ATTACK_MIN_DAMAGE,
                                 SPECIAL_ATTACK_MAX_DAMAGE)
             newMonsterHealth == healthAfterDamage(c.monsterHealth, damage)
             n1 == [c EXCEPT !.currentRound = @ + 1,
                             !.lastActionWasCritical = critical,
                             !.gameStats.criticalHits =
                                 IF critical THEN @ + 1 ELSE @,
                             !.monsterHealth = newMonsterHealth,
                             !.gameStats.playerDamageDealt = @ + damage,
                             !.gameStats.roundsPlayed = @ + 1]
             n2 == addLogMessage(n1, createLogAttack(TRUE, damage, critical))
             n3 == [n2 EXCEPT !.specialAttackCooldown = SPECIAL_ATTACK_COOLDOWN,
                              !.specialAttackAvailable = FALSE]
         IN IF monsterTurnAfterHit(newMonsterHealth)
            THEN monsterAttack(c, n3, mrc, mrb)
            ELSE n3

\* A variant of isMaxedHeal: only a roll beyond the ceiling counts.
isMaxedHeal_strict(health, healing) == health + healing > MAX_HEALTH

\* const isMaxed = playerHealth + healing >= 100
isMaxedHeal(health, healing) == health + healing >= MAX_HEALTH

\* A variant of healingCounted: the full roll, capped or not.
healingCounted_fullRoll(health, healing, isMaxed) == healing

\* A variant of healingCounted: the capped amount with its operands exchanged.
healingCounted_negative(health, healing, isMaxed) ==
    IF isMaxed THEN health - MAX_HEALTH ELSE healing

\* isMaxed ? 100 - playerHealth : healing
healingCounted(health, healing, isMaxed) ==
    IF isMaxed THEN MAX_HEALTH - health ELSE healing

healPlayer(c, rh, mrc, mrb) ==
    IF healBlocked(c) THEN c
    ELSE LET healing == getRandomValue(rh, HEAL_MIN_VALUE, HEAL_MAX_VALUE)
             isMaxed == isMaxedHeal(c.playerHealth, healing)
             newPlayerHealth == healthAfterHeal(c.playerHealth, healing)
             n1 == [c EXCEPT !.currentRound = @ + 1,
                             !.playerHealth = newPlayerHealth,
                             !.gameStats.healingDone =
                                 @ + healingCounted(c.playerHealth, healing,
                                                    isMaxed),
                             !.gameStats.roundsPlayed = @ + 1]
             n2 == addLogMessage(n1, createLogHeal(healing, isMaxed))
             n3 == reduceCooldown(c, n2)
         IN monsterAttack(c, n3, mrc, mrb)

\* A variant of surrender: gameOver is left to the winner check.
surrender_noGameOver(c) ==
    IF surrenderBlocked(c) THEN c
    ELSE addLogMessage([c EXCEPT !.playerHealth = 0,
                                 !.winner = "monster"],
                       surrenderLog)

surrender(c) ==
    IF surrenderBlocked(c) THEN c
    ELSE addLogMessage([c EXCEPT !.playerHealth = 0,
                                 !.winner = "monster",
                                 !.gameOver = TRUE],
                       surrenderLog)

\* A variant of resetGame: the special attack cooldown is not reset.
resetGame_keepsCooldown(c) ==
    [playerHealth |-> MAX_HEALTH, monsterHealth |-> MAX_HEALTH,
     currentRound |-> 0, battleLog |-> <<>>, gameOver |-> FALSE,
     winner |-> null, specialAttackAvailable |-> TRUE,
     specialAttackCooldown |-> c.specialAttackCooldown,
     lastActionWasCritical |-> FALSE,
     gameStats |-> initialStats]

resetGame(c) ==
    [playerHealth |-> MAX_HEALTH, monsterHealth |-> MAX_HEALTH,
     currentRound |-> 0, battleLog |-> <<>>, gameOver |-> FALSE,
     winner |-> null, specialAttackAvailable |-> TRUE,
     specialAttackCooldown |-> 0, lastActionWasCritical |-> FALSE,
     gameStats |-> initialStats]

\* ------------------------------------------------------------------------
\* Effects: run in the closure c of the render that follows a handler
\* ------------------------------------------------------------------------
\* A variant of cooldownEffect: the else branch is missing.
cooldownEffect_onlyDisables(c, n) ==
    IF c.specialAttackCooldown > 0
    THEN [n EXCEPT !.specialAttackAvailable = FALSE]
    ELSE n

\* useEffect(..., [specialAttackCooldown])
cooldownEffect(c, n) ==
    [n EXCEPT !.specialAttackAvailable = ~(c.specialAttackCooldown > 0)]

\* A variant of checkForWinner: the player's win sets no gameOver.
checkForWinner_noGameOver(c, n) ==
    IF c.monsterHealth <= 0 /\ c.playerHealth <= 0
    THEN [n EXCEPT !.winner = "draw", !.gameOver = TRUE]
    ELSE IF c.monsterHealth <= 0
    THEN [n EXCEPT !.winner = "player"]
    ELSE IF c.playerHealth <= 0
    THEN [n EXCEPT !.winner = "monster", !.gameOver = TRUE]
    ELSE n

\* A variant of checkForWinner: the two single-loser branches exchanged.
checkForWinner_swapped(c, n) ==
    IF c.monsterHealth <= 0 /\ c.playerHealth <= 0
    THEN [n EXCEPT !.winner = "draw", !.gameOver = TRUE]
    ELSE IF c.monsterHealth <= 0
    THEN [n EXCEPT !.winner = "monster", !.gameOver = TRUE]
    ELSE IF c.playerHealth <= 0
    THEN [n EXCEPT !.winner = "player", !.gameOver = TRUE]
    ELSE n

checkForWinner(c, n) ==
    IF c.monsterHealth <= 0 /\ c.playerHealth <= 0
    THEN [n EXCEPT !.winner = "draw", !.gameOver = TRUE]
    ELSE IF c.monsterHealth <= 0
    THEN [n EXCEPT !.winner = "player", !.gameOver = TRUE]
    ELSE IF c.playerHealth <= 0
    THEN [n EXCEPT !.winner = "monster", !.gameOver = TRUE]
    ELSE n

\* The dependency arrays of the two effects.
effectDeps(c) ==
    [specialAttackCooldown |-> c.specialAttackCooldown,
     playerHealth |-> c.playerHealth, monsterHealth |-> c.monsterHealth]

runEffects(c, deps) ==
    LET n1 == IF c.specialAttackCooldown # deps.specialAttackCooldown
              THEN cooldownEffect(c, c) ELSE c
    IN IF c.playerHealth # deps.playerHealth
          \/ c.monsterHealth # deps.monsterHealth
       THEN checkForWinner(c, n1) ELSE n1

\* ------------------------------------------------------------------------
\* The state machine
\* ------------------------------------------------------------------------
\* React applies the queued updates.
Commit(n) ==
    /\ playerHealth' = n.playerHealth
    /\ monsterHealth' = n.monsterHealth
    /\ currentRound' = n.currentRound
    /\ battleLog' = n.battleLog
    /\ gameOver' = n.gameOver
    /\ winner' = n.winner
    /\ specialAttackAvailable' = n.specialAttackAvailable
    /\ specialAttackCooldown' = n.specialAttackCooldown
    /\ lastActionWasCritical' = n.lastActionWasCritical
    /\ gameStats' = n.gameStats

\* The number of non-critical damage entries of a log.
nonCriticalLogged(log) ==
    Cardinality({i \in 1..Len(log) : log[i].isDamage /\ ~log[i].isCritical})

\* No draw is made by a call that does not reach one.
NoDraws == [rc |-> 0, rb |-> 0, rh |-> 0, mrc |-> 0, mrb |-> 0]

\* A click: the handler runs to its end in the closure of the current render
\* and React applies what it queued; the render that follows runs the effects.
\* A call that returns at its guard queues nothing and is no step.
Call(op, blocked, n, draws) ==
    /\ pc = "idle"
    /\ ~blocked
    /\ n.currentRound <= MaxRound
    /\ nonCriticalLogged(n.battleLog) <= MaxNonCritical
    /\ Commit(n)
    /\ last' = [op |-> op, draws |-> draws, pre |-> Snap]
    /\ pc' = "effects"
    /\ UNCHANGED rendered

Attack ==
    \E rc \in CritDraws, rb \in DamageDraws,
       mrc \in CritDraws, mrb \in DamageDraws :
        Call("attack", actionBlocked(Snap),
             attackMonster(Snap, rc, rb, mrc, mrb),
             [rc |-> rc, rb |-> rb, rh |-> 0, mrc |-> mrc, mrb |-> mrb])

SpecialAttack ==
    \E rc \in CritDraws, rb \in DamageDraws,
       mrc \in CritDraws, mrb \in DamageDraws :
        Call("specialAttack", specialAttackBlocked(Snap),
             specialAttackMonster(Snap, rc, rb, mrc, mrb),
             [rc |-> rc, rb |-> rb, rh |-> 0, mrc |-> mrc, mrb |-> mrb])

Heal ==
    \E rh \in HealDraws, mrc \in CritDraws, mrb \in DamageDraws :
        Call("heal", healBlocked(Snap),
             healPlayer(Snap, rh, mrc, mrb),
             [rc |-> 0, rb |-> 0, rh |-> rh, mrc |-> mrc, mrb |-> mrb])

Surrender ==
    Call("surrender", surrenderBlocked(Snap), surrender(Snap), NoDraws)

Reset ==
    Call("reset", FALSE, resetGame(Snap), NoDraws)

RunEffects ==
    /\ pc = "effects"
    /\ Commit(runEffects(Snap, rendered))
    /\ rendered' = effectDeps(Snap)
    /\ pc' = "idle"
    /\ UNCHANGED last

Init ==
    /\ playerHealth = MAX_HEALTH
    /\ monsterHealth = MAX_HEALTH
    /\ currentRound = 0
    /\ battleLog = <<>>
    /\ gameOver = FALSE
    /\ winner = null
    /\ specialAttackAvailable = TRUE
    /\ specialAttackCooldown = 0
    /\ lastActionWasCritical = FALSE
    /\ gameStats = initialStats
    /\ rendered = [specialAttackCooldown |-> 0, playerHealth |-> MAX_HEALTH,
                   monsterHealth |-> MAX_HEALTH]
    /\ pc = "idle"
    /\ last = [op |-> "mount", draws |-> NoDraws,
               pre |-> [playerHealth |-> MAX_HEALTH,
                        monsterHealth |-> MAX_HEALTH,
                        currentRound |-> 0, battleLog |-> <<>>,
                        gameOver |-> FALSE, winner |-> null,
                        specialAttackAvailable |-> TRUE,
                        specialAttackCooldown |-> 0,
                        lastActionWasCritical |-> FALSE,
                        gameStats |-> initialStats]]

Next ==
    \/ Attack
    \/ SpecialAttack
    \/ Heal
    \/ Surrender
    \/ Reset
    \/ RunEffects

Spec == Init /\ [][Next]_vars

\* ------------------------------------------------------------------------
\* The same machine with the rolls drawn from the wider set, for few rounds
\* ------------------------------------------------------------------------
DiceCall(op, blocked, n, draws) ==
    /\ pc = "idle"
    /\ ~blocked
    /\ n.currentRound <= DiceRounds
    /\ Commit(n)
    /\ last' = [op |-> op, draws |-> draws, pre |-> Snap]
    /\ pc' = "effects"
    /\ UNCHANGED rendered

DiceAttack ==
    /\ currentRound < DiceRounds
    /\ \E rc \in CritDraws, rb \in WideDraws,
          mrc \in CritDraws, mrb \in WideDraws :
           DiceCall("attack", actionBlocked(Snap),
                    attackMonster(Snap, rc, rb, mrc, mrb),
                    [rc |-> rc, rb |-> rb, rh |-> 0, mrc |-> mrc, mrb |-> mrb])

DiceSpecialAttack ==
    /\ currentRound < DiceRounds
    /\ \E rc \in CritDraws, rb \in WideDraws,
          mrc \in CritDraws, mrb \in WideDraws :
           DiceCall("specialAttack", specialAttackBlocked(Snap),
                    specialAttackMonster(Snap, rc, rb, mrc, mrb),
                    [rc |-> rc, rb |-> rb, rh |-> 0, mrc |-> mrc, mrb |-> mrb])

DiceHeal ==
    /\ currentRound < DiceRounds
    /\ \E rh \in WideDraws, mrc \in CritDraws, mrb \in WideDraws :
           DiceCall("heal", healBlocked(Snap),
                    healPlayer(Snap, rh, mrc, mrb),
                    [rc |-> 0, rb |-> 0, rh |-> rh, mrc |-> mrc, mrb |-> mrb])

NextDice ==
    \/ DiceAttack
    \/ DiceSpecialAttack
    \/ DiceHeal
    \/ Surrender
    \/ Reset
    \/ RunEffects

SpecDice == Init /\ [][NextDice]_vars

\* ------------------------------------------------------------------------
\* The latest call, as the properties below read it
\* ------------------------------------------------------------------------
\* The damage the player's draws of the latest call amount to.
lastPlayerDamage ==
    IF last.op = "specialAttack"
    THEN hitDamage(last.draws.rc, last.draws.rb,
                   SPECIAL_ATTACK_MIN_DAMAGE, SPECIAL_ATTACK_MAX_DAMAGE)
    ELSE hitDamage(last.draws.rc, last.draws.rb,
                   ATTACK_MIN_DAMAGE, ATTACK_MAX_DAMAGE)

\* The damage the monster's draws of the latest call amount to.
lastMonsterDamage ==
    hitDamage(last.draws.mrc, last.draws.mrb,
              MONSTER_ATTACK_MIN_DAMAGE, MONSTER_ATTACK_MAX_DAMAGE)

\* The healing the heal draw of the latest call amounts to.
lastHealing == getRandomValue(last.draws.rh, HEAL_MIN_VALUE, HEAL_MAX_VALUE)

\* ------------------------------------------------------------------------
\* Properties
\* ------------------------------------------------------------------------
\* C1: in every reachable state playerHealth and monsterHealth are integers
\* in the range 0..100.
C1_HealthInRange ==
    /\ playerHealth \in 0..100
    /\ monsterHealth \in 0..100

\* A hit larger than the health it lands on has been clamped to 0.
C1_Witness ==
    /\ last.op \in {"attack", "specialAttack"}
    /\ last.pre.monsterHealth < lastPlayerDamage
    /\ monsterHealth = 0

\* C2: once the winner check that follows an action has run, gameOver is true
\* if and only if playerHealth <= 0 or monsterHealth <= 0.
C2_GameOverIffDead ==
    pc = "idle" => (gameOver <=> (playerHealth <= 0 \/ monsterHealth <= 0))

\* The winner check has run after a hit that took the monster's health to 0.
C2_Witness ==
    /\ pc = "idle"
    /\ last.op \in {"attack", "specialAttack"}
    /\ last.pre.monsterHealth > 0
    /\ monsterHealth = 0
    /\ gameOver

\* C3: whenever gameOver is true the winner agrees with the healths (draw iff
\* both are <= 0, player iff only the monster's is, monster iff only the
\* player's is); winner is none whenever gameOver is false; and a winner, once
\* set, does not change by any step other than a reset.
C3_WinnerAgrees ==
    /\ gameOver =>
          /\ (winner = "draw") <=> (playerHealth <= 0 /\ monsterHealth <= 0)
          /\ (winner = "player") <=> (monsterHealth <= 0 /\ playerHealth > 0)
          /\ (winner = "monster") <=> (playerHealth <= 0 /\ monsterHealth > 0)
    /\ ~gameOver => winner = null

\* C3: the winner agrees with the healths in every state, and a winner, once
\* set, is changed by no step other than a reset.
C3_WinnerConsistent ==
    /\ []C3_WinnerAgrees
    /\ [][(winner # null /\ ~Reset) => winner' = winner]_vars

\* The monster's hit took the player's health to 0 and the winner check has
\* named the monster.
C3_Witness ==
    /\ pc = "idle"
    /\ last.op \in {"attack", "specialAttack", "heal"}
    /\ last.pre.playerHealth > 0
    /\ playerHealth = 0
    /\ gameOver
    /\ winner = "monster"

\* C4: a heal accepted at playerHealth p with heal roll h and monster damage d
\* leaves playerHealth = max(min(p + h, 100) - d, 0): the monster's damage is
\* applied to the healed value.
C4_HealThenDamage ==
    last.op = "heal" =>
        playerHealth =
            Max(Min(last.pre.playerHealth + lastHealing, 100)
                    - lastMonsterDamage, 0)

\* C5: a call whose precondition fails changes no state variable: attack,
\* specialAttack and heal when gameOver is true or a health is <= 0, heal at
\* playerHealth 100, specialAttack while the cooldown is > 0, surrender when
\* gameOver is true; and no step but a reset leaves gameOver.
C5_BlockedCallsAreNoOps ==
    /\ (pc = "idle"
        /\ (gameOver \/ playerHealth <= 0 \/ monsterHealth <= 0)) =>
          /\ \A rc \in CritDraws, rb \in DamageDraws,
                mrc \in CritDraws, mrb \in DamageDraws :
                 /\ attackMonster(Snap, rc, rb, mrc, mrb) = Snap
                 /\ specialAttackMonster(Snap, rc, rb, mrc, mrb) = Snap
          /\ \A rh \in HealDraws, mrc \in CritDraws, mrb \in DamageDraws :
                 healPlayer(Snap, rh, mrc, mrb) = Snap
    /\ (pc = "idle" /\ playerHealth = 100) =>
          \A rh \in HealDraws, mrc \in CritDraws, mrb \in DamageDraws :
              healPlayer(Snap, rh, mrc, mrb) = Snap
    /\ (pc = "idle" /\ specialAttackCooldown > 0) =>
          \A rc \in CritDraws, rb \in DamageDraws,
             mrc \in CritDraws, mrb \in DamageDraws :
              specialAttackMonster(Snap, rc, rb, mrc, mrb) = Snap
    /\ (pc = "idle" /\ gameOver) => surrender(Snap) = Snap
    /\ (last.op \in {"attack", "specialAttack", "heal", "surrender"}
        /\ last.pre.gameOver) => gameOver
    /\ (pc = "effects" /\ gameOver) => runEffects(Snap, rendered).gameOver

\* A game ended by a hit while the special attack was cooling down: every
\* button but reset is refused.
C5_Witness ==
    /\ pc = "idle"
    /\ gameOver
    /\ specialAttackCooldown > 0
    /\ last.op \in {"attack", "heal"}

\* C6: a successful specialAttack leaves the cooldown at exactly 3; each
\* successful attack or heal lowers a cooldown > 0 by exactly 1; in a game in
\* progress specialAttack is accepted exactly when the cooldown is 0.
C6_CooldownCycle ==
    /\ specialAttackCooldown \in 0..3
    /\ last.op = "specialAttack" => specialAttackCooldown = 3
    /\ last.op \in {"attack", "heal"} =>
          specialAttackCooldown =
              IF last.pre.specialAttackCooldown > 0
              THEN last.pre.specialAttackCooldown - 1
              ELSE 0
    /\ (pc = "idle" /\ ~gameOver) =>
          \A rc \in CritDraws, rb \in DamageDraws,
             mrc \in CritDraws, mrb \in DamageDraws :
              (specialAttackMonster(Snap, rc, rb, mrc, mrb) # Snap)
                  <=> (specialAttackCooldown = 0)

\* The third attack or heal after a specialAttack has brought the cooldown
\* from 1 to 0 in a game still in progress.
C6_Witness ==
    /\ pc = "idle"
    /\ ~gameOver
    /\ last.op \in {"attack", "heal"}
    /\ last.pre.specialAttackCooldown = 1
    /\ specialAttackCooldown = 0

\* C7: a surrender accepted at any health values leaves playerHealth = 0,
\* winner = monster and gameOver = true, before and after the winner check,
\* adds exactly one surrender log entry and no monster entry, leaves
\* monsterHealth, round, cooldown and stats unchanged; a second surrender
\* changes nothing.
C7_Surrender ==
    last.op = "surrender" =>
        /\ ~last.pre.gameOver
        /\ playerHealth = 0
        /\ winner = "monster"
        /\ gameOver
        /\ battleLog = <<surrenderLog>> \o last.pre.battleLog
        /\ monsterHealth = last.pre.monsterHealth
        /\ currentRound = last.pre.currentRound
        /\ specialAttackCooldown = last.pre.specialAttackCooldown
        /\ gameStats = last.pre.gameStats
        /\ pc = "idle" => surrender(Snap) = Snap

\* A surrender in the middle of a game, the winner check having run.
C7_Witness ==
    /\ pc = "idle"
    /\ last.op = "surrender"
    /\ last.pre.playerHealth < 100
    /\ last.pre.monsterHealth < 100
    /\ last.pre.specialAttackCooldown > 0

\* C8: reset called in any state yields the initial state (healths 100,
\* round 0, empty log, gameOver false, winner none, cooldown 0 and special
\* attack available, lastActionWasCritical false, all stats 0), and the state
\* stays so after the effects have run.
C8_ResetRestoresDefaults ==
    last.op = "reset" =>
        /\ playerHealth = 100
        /\ monsterHealth = 100
        /\ currentRound = 0
        /\ battleLog = <<>>
        /\ gameOver = FALSE
        /\ winner = null
        /\ specialAttackCooldown = 0
        /\ specialAttackAvailable = TRUE
        /\ lastActionWasCritical = FALSE
        /\ gameStats = [playerDamageDealt |-> 0, monsterDamageDealt |-> 0,
                        healingDone |-> 0, criticalHits |-> 0,
                        roundsPlayed |-> 0]

\* A reset of a finished game that had a cooldown running, a critical last
\* action and a log, the effects having run.
C8_Witness ==
    /\ pc = "idle"
    /\ last.op = "reset"
    /\ last.pre.gameOver
    /\ last.pre.specialAttackCooldown > 0
    /\ last.pre.lastActionWasCritical
    /\ last.pre.battleLog # <<>>

\* C9: round and roundsPlayed each grow by exactly 1 with every successful
\* attack, specialAttack or heal, the chained monster attack included, and by
\* 0 with a surrender; round = roundsPlayed in every state.
C9_RoundCounts ==
    /\ currentRound = gameStats.roundsPlayed
    /\ last.op \in {"attack", "specialAttack", "heal"} =>
          /\ currentRound = last.pre.currentRound + 1
          /\ gameStats.roundsPlayed = last.pre.gameStats.roundsPlayed + 1
    /\ last.op = "surrender" =>
          /\ currentRound = last.pre.currentRound
          /\ gameStats.roundsPlayed = last.pre.gameStats.roundsPlayed

\* A second round in which the monster has attacked after the player's action.
C9_Witness ==
    /\ last.op \in {"attack", "specialAttack", "heal"}
    /\ last.pre.currentRound = 1
    /\ currentRound = 2
    /\ gameStats.monsterDamageDealt > last.pre.gameStats.monsterDamageDealt

\* C10: after an attack or specialAttack that leaves monsterHealth > 0 the
\* monster has attacked exactly once (playerHealth down by min(playerHealth,
\* d), one monster damage entry on top of the player's entry); after one that
\* brings monsterHealth to 0 the monster has not attacked (playerHealth and
\* monsterDamageDealt unchanged, no monster entry) and the game ends with
\* winner = player and gameOver = true.
C10_CounterAttack ==
    last.op \in {"attack", "specialAttack"} =>
        /\ monsterHealth > 0 =>
              /\ playerHealth = last.pre.playerHealth
                     - Min(last.pre.playerHealth, lastMonsterDamage)
              /\ gameStats.monsterDamageDealt =
                     last.pre.gameStats.monsterDamageDealt + lastMonsterDamage
              /\ Len(battleLog) = Len(last.pre.battleLog) + 2
              /\ SubSeq(battleLog, 3, Len(battleLog)) = last.pre.battleLog
              /\ ~battleLog[1].isPlayer /\ battleLog[1].isDamage
              /\ battleLog[1].text[2] = lastMonsterDamage
              /\ battleLog[2].isPlayer /\ battleLog[2].isDamage
        /\ monsterHealth = 0 =>
              /\ playerHealth = last.pre.playerHealth
              /\ gameStats.monsterDamageDealt =
                     last.pre.gameStats.monsterDamageDealt
              /\ Len(battleLog) = Len(last.pre.battleLog) + 1
              /\ SubSeq(battleLog, 2, Len(battleLog)) = last.pre.battleLog
              /\ battleLog[1].isPlayer /\ battleLog[1].isDamage
              /\ pc = "idle" => (winner = "player" /\ gameOver)

\* A hit has brought the monster's health to 0 and the winner check has run.
C10_Witness ==
    /\ pc = "idle"
    /\ last.op \in {"attack", "specialAttack"}
    /\ last.pre.monsterHealth > 0
    /\ monsterHealth = 0
    /\ winner = "player"

\* C11: a successful heal at playerHealth p with roll h raises healingDone by
\* exactly min(h, 100 - p), the healing actually applied.
C11_HealingDone ==
    last.op = "heal" =>
        gameStats.healingDone =
            last.pre.gameStats.healingDone
                + Min(lastHealing, 100 - last.pre.playerHealth)

\* A heal whose roll is larger than what was missing to 100.
C11_Witness ==
    /\ last.op = "heal"
    /\ lastHealing > 100 - last.pre.playerHealth
    /\ gameStats.healingDone > last.pre.gameStats.healingDone

\* C12 as claimed: the heal entry is marked MAX HEALTH if and only if
\* playerHealth + healing > 100 for the playerHealth before the heal.
C12_CappedIffExceeds ==
    last.op = "heal" =>
        ((battleLog[2].text[4] = " (MAX HEALTH!)")
            <=> (last.pre.playerHealth + lastHealing > 100))

\* C12 as amended: the heal entry is marked MAX HEALTH if and only if
\* playerHealth + healing >= 100 for the playerHealth before the heal.
C12_CappedIffReaches ==
    last.op = "heal" =>
        /\ battleLog[2].text[1] = " heals "
        /\ battleLog[2].text[2] = lastHealing
        /\ (battleLog[2].text[4] = " (MAX HEALTH!)")
              <=> (last.pre.playerHealth + lastHealing >= 100)

\* A heal whose roll is exactly what was missing to 100, marked MAX HEALTH.
C12_Witness ==
    /\ last.op = "heal"
    /\ last.pre.playerHealth + lastHealing = 100
    /\ battleLog[2].text[4] = " (MAX HEALTH!)"

\* Whether log is what remains of longer after its first entries.
IsSuffix(log, longer) ==
    /\ Len(log) <= Len(longer)
    /\ SubSeq(longer, Len(longer) - Len(log) + 1, Len(longer)) = log

\* C13: every successful heal is followed within the same call by exactly one
\* monster attack: monsterDamageDealt grows by the monster's damage and the
\* two newest log entries are the monster's damage entry on top of the
\* player's heal entry.
C13_HealThenMonster ==
    last.op = "heal" =>
        /\ gameStats.monsterDamageDealt =
               last.pre.gameStats.monsterDamageDealt + lastMonsterDamage
        /\ Len(battleLog) = Len(last.pre.battleLog) + 2
        /\ SubSeq(battleLog, 3, Len(battleLog)) = last.pre.battleLog
        /\ ~battleLog[1].isPlayer /\ battleLog[1].isDamage
        /\ battleLog[1].text[2] = lastMonsterDamage
        /\ battleLog[2].isPlayer /\ ~battleLog[2].isDamage
        /\ battleLog[2].text[1] = " heals "

\* A heal in the middle of a game, followed by the monster's hit.
C13_Witness ==
    /\ last.op = "heal"
    /\ last.pre.currentRound >= 2
    /\ lastMonsterDamage > 0
    /\ ~battleLog[1].isPlayer

\* C14: the log only grows at its front between resets: the log before a
\* call other than reset is what remains of the log after it, the effects
\* leave the log alone, the player's entry of a call lies under the monster's,
\* and only mount and reset leave an empty log.
C14_LogPrependOnly ==
    /\ last.op \in {"attack", "specialAttack", "heal", "surrender"} =>
          /\ IsSuffix(last.pre.battleLog, battleLog)
          /\ Len(battleLog) > Len(last.pre.battleLog)
          /\ battleLog[Len(battleLog) - Len(last.pre.battleLog)].isPlayer
          /\ Len(battleLog) = Len(last.pre.battleLog) + 2 =>
                ~battleLog[1].isPlayer
    /\ pc = "effects" => runEffects(Snap, rendered).battleLog = battleLog
    /\ battleLog = <<>> => last.op \in {"mount", "reset"}

\* A call has put two entries on top of a log that was not empty.
C14_Witness ==
    /\ last.op \in {"attack", "specialAttack", "heal"}
    /\ last.pre.battleLog # <<>>
    /\ Len(battleLog) = Len(last.pre.battleLog) + 2
    /\ battleLog[2].isPlayer
    /\ ~battleLog[1].isPlayer

\* The base roll of the player's hit in the latest call.
lastPlayerBase ==
    IF last.op = "specialAttack"
    THEN getRandomValue(last.draws.rb, SPECIAL_ATTACK_MIN_DAMAGE,
                        SPECIAL_ATTACK_MAX_DAMAGE)
    ELSE getRandomValue(last.draws.rb, ATTACK_MIN_DAMAGE, ATTACK_MAX_DAMAGE)

\* The base roll of the monster's hit in the latest call.
lastMonsterBase ==
    getRandomValue(last.draws.mrb, MONSTER_ATTACK_MIN_DAMAGE,
                   MONSTER_ATTACK_MAX_DAMAGE)

C16_CriticalHitsStat ==
    /\ last.op \in {"attack", "specialAttack"} =>
          gameStats.criticalHits =
              last.pre.gameStats.criticalHits
                  + (IF isCriticalHit(last.draws.rc) THEN 1 ELSE 0)
    /\ last.op \in {"heal", "surrender"} =>
          gameStats.criticalHits = last.pre.gameStats.criticalHits
    /\ (pc = "idle" /\ ~gameOver) =>
          \A mrc \in CritDraws, mrb \in DamageDraws :
              LET n == monsterAttack(Snap, Snap, mrc, mrb)
              IN /\ n.gameStats =
                        [gameStats EXCEPT !.monsterDamageDealt =
                            @ + hitDamage(mrc, mrb, MONSTER_ATTACK_MIN_DAMAGE,
                                          MONSTER_ATTACK_MAX_DAMAGE)]
                 /\ n.currentRound = currentRound
                 /\ n.specialAttackCooldown = specialAttackCooldown
                 /\ n.monsterHealth = monsterHealth

\* A non-critical attack answered by a critical monster hit: criticalHits
\* stayed as it was.
C16_Witness ==
    /\ last.op = "attack"
    /\ ~isCriticalHit(last.draws.rc)
    /\ battleLog[1].isCritical /\ ~battleLog[1].isPlayer
    /\ last.pre.gameStats.criticalHits > 0
    /\ gameStats.criticalHits = last.pre.gameStats.criticalHits

\* C17: between resets none of the five stat counters ever decreases.
C17_StatsMonotone ==
    /\ last.op \in {"attack", "specialAttack", "heal", "surrender"} =>
          /\ gameStats.playerDamageDealt
                 >= last.pre.gameStats.playerDamageDealt
          /\ gameStats.monsterDamageDealt
                 >= last.pre.gameStats.monsterDamageDealt
          /\ gameStats.healingDone >= last.pre.gameStats.healingDone
          /\ gameStats.criticalHits >= last.pre.gameStats.criticalHits
          /\ gameStats.roundsPlayed >= last.pre.gameStats.roundsPlayed
    /\ pc = "effects" => runEffects(Snap, rendered).gameStats = gameStats

\* A capped heal has raised healingDone while the monster's hit raised
\* monsterDamageDealt.
C17_Witness ==
    /\ last.op = "heal"
    /\ last.pre.playerHealth + lastHealing > 100
    /\ gameStats.healingDone > last.pre.gameStats.healingDone
    /\ gameStats.monsterDamageDealt > last.pre.gameStats.monsterDamageDealt

\* C18: playerHealth and monsterHealth are never both <= 0 and winner is
\* never draw; a surrender is accepted only while the monster is alive.
C18_NoDraw ==
    /\ ~(playerHealth <= 0 /\ monsterHealth <= 0)
    /\ winner # "draw"
    /\ last.op = "surrender" => last.pre.monsterHealth > 0

\* A lethal hit by a player whom the monster's strongest answer, 21, would
\* have killed: the monster did not answer and the player has won.
C18_Witness ==
    /\ pc = "idle"
    /\ last.op \in {"attack", "specialAttack"}
    /\ monsterHealth = 0
    /\ playerHealth \in 1..21
    /\ winner = "player"

\* C19: between resets every successful attack, specialAttack or heal
\* strictly lowers playerHealth + monsterHealth, which is never negative, so
\* the rounds of a game are bounded: round + playerHealth + monsterHealth
\* never exceeds 200, and no such call is accepted once a health is 0.
C19_HealthSumDecreases ==
    /\ last.op \in {"attack", "specialAttack", "heal"} =>
          /\ last.pre.playerHealth > 0 /\ last.pre.monsterHealth > 0
          /\ playerHealth + monsterHealth
                 < last.pre.playerHealth + last.pre.monsterHealth
    /\ playerHealth + monsterHealth >= 0
    /\ currentRound + playerHealth + monsterHealth <= 200

\* A heal whose roll was larger than the monster's damage has lowered the
\* sum of the healths all the same.
C19_Witness ==
    /\ last.op = "heal"
    /\ lastHealing > lastMonsterDamage
    /\ last.pre.playerHealth + lastHealing < 100
    /\ playerHealth > 0
    /\ playerHealth + monsterHealth
           < last.pre.playerHealth + last.pre.monsterHealth

\* C20: whenever a button can be clicked, specialAttackAvailable is true if
\* and only if specialAttackCooldown = 0; specialAttackCooldown is always in
\* 0..3.
C20_AvailableIffNoCooldown ==
    /\ specialAttackCooldown \in 0..3
    /\ pc = "idle" =>
          (specialAttackAvailable <=> (specialAttackCooldown = 0))

\* The cooldown has run down from 1 to 0 and the flag has been set again.
C20_Witness ==
    /\ pc = "idle"
    /\ last.op \in {"attack", "heal"}
    /\ last.pre.specialAttackCooldown = 1
    /\ ~last.pre.specialAttackAvailable
    /\ specialAttackCooldown = 0
    /\ specialAttackAvailable

====
